---- MODULE Spec2Model ----
(***************************************************************************)
(* Resilient task-execution and delivery core of PANTHEON_JARVIS:          *)
(*   - CircuitBreaker        (src/utils/error_handler.py)                  *)
(*   - UserSessionManager    (src/cognitive/session_manager.py)            *)
(*   - TaskManager           (src/cognitive/task_manager.py)               *)
(*   - ErrorHandler          (src/utils/error_handler.py)                  *)
(* Each component is a state machine of its own (SpecCB, SpecSM, SpecTM);  *)
(* the variables of the other components stay at their initial values.     *)
(***************************************************************************)
EXTENDS Integers, Sequences, FiniteSets, TLC

VARIABLES
    \* ---- clock shared by the components (time.time / datetime.now)
    now,
    \* ---- CircuitBreaker
    failure_threshold,   \* self.failure_threshold
    recovery_timeout,    \* self.recovery_timeout
    failure_count,       \* self._failure_count
    last_failure_time,   \* self._last_failure_time (None = NoTime)
    state,               \* self._state
    cb_pc,               \* per call(): "idle" | "running" (suspended in await func())
    cb_probe,            \* history: the call that moved open -> half-open
    cb_event,            \* history: what the last breaker step did
    consec_failures,     \* history: calls finished with a failure since the last
                         \* call finished with a success (or reset())
    \* ---- UserSessionManager
    sessions,            \* self._sessions: user_id -> session object (0 = no entry)
    sess,                \* the UserSession objects, by object number
    n_obj,               \* UserSession objects constructed so far
    task_to_user,        \* self._task_to_user
    delivered,           \* TaskResult.delivered, by task id
    n_results,           \* store_result calls made so far (task ids 1..n_results)
    st,                  \* store_result calls: position and locals, by task id
    dl,                  \* deliver_pending_results calls: position and locals
    sent,                \* history: task ids whose result a send_json delivered
    row,                 \* history, per session object: outcome of the last
                         \* deliver call if nothing else touched the session since
    sm_event,            \* history: what the last session-manager step did
    \* ---- TaskManager
    task_counter,        \* self._task_counter
    tasks,               \* self._tasks: the BackgroundTask objects, by task number
    async_tasks,         \* keys of self._async_tasks
    async_pc,            \* per foreground task: position of its asyncio.Task
    must_cancel,         \* per foreground task: Task.cancel() is pending
    executor_queue,      \* work items queued in the ThreadPoolExecutor (FIFO)
    worker_pc,           \* per task: position of its work item / worker thread
    executor_down,       \* the executor was shut down
    handoff,             \* per task: _on_task_complete scheduled on the loop
    notification_callback,  \* self._notification_callback is set
    notified,            \* history: calls of the notification callback, per task
    sd_pc,               \* position of shutdown()
    waiter,              \* position and locals of a wait_for_task call
    cancel_ret,          \* history, per task: what the last cancel_task returned
    cancel_pc,           \* the task whose cancel_task is past its status check, or 0
    pg_event,            \* history: the last update_progress call and its arguments
    \* ---- ErrorHandler.retry_with_backoff
    max_attempts,        \* config.max_attempts
    base_delay,          \* config.base_delay
    max_delay,           \* config.max_delay
    exponential_base,    \* config.exponential_base
    error_history,       \* self._error_history
    error_patterns,      \* self._error_patterns (one error type)
    rb,                  \* position and locals of a retry_with_backoff call
    \* ---- Planner (foreground execution of one skill)
    pl                   \* position of _execute_foreground_task, and its history

cbVars == <<failure_threshold, recovery_timeout, failure_count, last_failure_time,
            state, cb_pc, cb_probe, cb_event, consec_failures>>

smVars == <<sessions, sess, n_obj, task_to_user, delivered, n_results, st, dl,
            sent, row, sm_event>>

tmVars == <<task_counter, tasks, async_tasks, async_pc, must_cancel, executor_queue,
            worker_pc, executor_down, handoff, notification_callback, notified,
            sd_pc, waiter, cancel_ret, cancel_pc, pg_event>>

ehVars == <<max_attempts, base_delay, max_delay, exponential_base, error_history,
            error_patterns, rb>>

plVars == <<pl>>

vars == <<now, cbVars, smVars, tmVars, ehVars, plVars>>

\* what the steps of one component leave alone
outsideCB == <<smVars, tmVars, ehVars, plVars>>
outsideSM == <<cbVars, tmVars, ehVars, plVars>>
outsideTM == <<now, cbVars, smVars, ehVars, plVars>>
outsideEH == <<now, cbVars, smVars, tmVars, plVars>>
outsidePL == <<smVars, tmVars>>

(***************************************************************************)
(* Bounds                                                                  *)
(***************************************************************************)
MaxTime == 3          \* the clock runs 0..MaxTime
MaxThreshold == 2     \* failure_threshold is drawn from 1..MaxThreshold
MaxCalls == 3         \* overlapping call() invocations of one breaker
MaxCount == 4         \* cap of the failure counter (guards CallFail)
MaxTimeout == 2       \* recovery_timeout is drawn from 1..MaxTimeout
MaxResults == 2       \* store_result calls (task ids 1..MaxResults)
MaxObjs == 1          \* UserSession objects constructed
MaxDeliver == 2       \* overlapping deliver_pending_results calls
MaxIdleTime == 1      \* the session clock runs 0..MaxIdleTime
MaxTasks == 2         \* submit_task calls
MaxWorkers == 1       \* max_workers of the ThreadPoolExecutor
MaxProgressCalls == 2  \* update_progress calls
MaxAttempts == 3      \* config.max_attempts is drawn from 0..MaxAttempts
MaxBaseDelay == 2     \* config.base_delay is drawn from 1..MaxBaseDelay
MaxMaxDelay == 3      \* config.max_delay is drawn from 1..MaxMaxDelay
MaxExpBase == 2       \* config.exponential_base is drawn from 1..MaxExpBase

NoTime == -1          \* None for a timestamp

Tick(limit) ==
    /\ now < limit
    /\ now' = now + 1

\* no foreground execution under way: pc is where _execute_foreground_task
\* stands, rejected whether its breaker call raised CircuitBreakerOpenError,
\* n the executions begun so far
IdlePlanner == [pc |-> "idle", rejected |-> FALSE, n |-> 0]

PLInitState == pl = IdlePlanner

(***************************************************************************)
(* UserSessionManager                                                      *)
(***************************************************************************)
Users == {"userA"}
Handles == {"good", "flaky"}   \* WebSocket handles: sends on "good" always
                               \* succeed, sends on "flaky" may raise
NoHandle == "none"             \* session.websocket = None
TaskIds == 1..MaxResults
ObjIds == 1..MaxObjs
DeliverIds == 1..MaxDeliver

Range(q) == {q[i] : i \in 1..Len(q)}

\* list.remove(x): drops the first occurrence
RECURSIVE RemoveFirst(_, _)
RemoveFirst(q, x) ==
    IF q = <<>> THEN <<>>
    ELSE IF Head(q) = x THEN Tail(q)
         ELSE <<Head(q)>> \o RemoveFirst(Tail(q), x)

\* UserSession(user_id=...) as the dataclass constructs it
NewSession(u) ==
    [user_id |-> u, websocket |-> NoHandle, is_online |-> FALSE,
     last_active |-> now, pending_tasks |-> <<>>, pending_results |-> <<>>]

NoSession ==
    [user_id |-> "none", websocket |-> NoHandle, is_online |-> FALSE,
     last_active |-> 0, pending_tasks |-> <<>>, pending_results |-> <<>>]

IdleStore == [pc |-> "none", user |-> "none", obj |-> 0, ws |-> NoHandle]

IdleDeliver ==
    [pc |-> "idle", obj |-> 0, pending |-> <<>>, idx |-> 0, delivered_count |-> 0,
     ws |-> NoHandle, clean |-> TRUE, prev |-> "none"]

NoEvent ==
    [kind |-> "none", obj |-> 0, task |-> 0, call |-> 0, ret |-> 0, pending |-> <<>>,
     before |-> <<>>, failed_at |-> 0, clean |-> TRUE, prev |-> "none",
     tried |-> FALSE]

\* UserSessionManager.__init__
SMInitState ==
    /\ sessions = [u \in Users |-> 0]
    /\ sess = [o \in ObjIds |-> NoSession]
    /\ n_obj = 0
    /\ task_to_user = [t \in TaskIds |-> "none"]
    /\ delivered = [t \in TaskIds |-> FALSE]
    /\ n_results = 0
    /\ st = [t \in TaskIds |-> IdleStore]
    /\ dl = [d \in DeliverIds |-> IdleDeliver]
    /\ sent = {}
    /\ row = [o \in ObjIds |-> "none"]
    /\ sm_event = NoEvent

\* the outcomes a send_json on handle h can have (TRUE = returned, FALSE = raised)
SendOutcomes(h) == IF h = "good" THEN {TRUE} ELSE {TRUE, FALSE}

\* history bookkeeping: another operation touched session object o, so the
\* deliver calls running on o (all but `self`) no longer run undisturbed
Disturb(dls, o, self) ==
    [d \in DeliverIds |->
        IF d # self /\ dls[d].pc = "sending" /\ dls[d].obj = o
        THEN [dls[d] EXCEPT !.clean = FALSE]
        ELSE dls[d]]

\* (variant) connecting starts the session afresh
Attached_Fresh(s, h) ==
    [NewSession(s.user_id) EXCEPT !.websocket = h, !.is_online = TRUE]

\* connect_user on the session: websocket, is_online, touch()
Attached(s, h) ==
    [s EXCEPT !.websocket = h, !.is_online = TRUE, !.last_active = now]

\* disconnect_user on the session: websocket = None, is_online = False
Detached(s) == [s EXCEPT !.websocket = NoHandle, !.is_online = FALSE]

\* UserSessionManager.get_or_create_session followed by the body of connect_user
ConnectUser(u, h) ==
    /\ sessions[u] = 0 => n_obj < MaxObjs
    /\ LET o == IF sessions[u] = 0 THEN n_obj + 1 ELSE sessions[u]
           old == IF sessions[u] = 0 THEN NewSession(u) ELSE sess[o]
       IN /\ sessions' = [sessions EXCEPT ![u] = o]
          /\ n_obj' = IF sessions[u] = 0 THEN n_obj + 1 ELSE n_obj
          /\ sess' = [sess EXCEPT ![o] = Attached(old, h)]
          /\ dl' = Disturb(dl, o, 0)
          /\ row' = [row EXCEPT ![o] = "none"]
          /\ sm_event' = [NoEvent EXCEPT !.kind = "connect", !.obj = o,
                                         !.before = old.pending_results,
                                         !.pending = old.pending_tasks]
    /\ UNCHANGED <<task_to_user, delivered, n_results, st, sent>>
    /\ UNCHANGED <<now, outsideSM>>

\* UserSessionManager.disconnect_user
DisconnectUser(u) ==
    /\ sessions[u] # 0
    /\ LET o == sessions[u]
       IN /\ sess' = [sess EXCEPT ![o] = Detached(@)]
          /\ dl' = Disturb(dl, o, 0)
          /\ row' = [row EXCEPT ![o] = "none"]
          /\ sm_event' = [NoEvent EXCEPT !.kind = "disconnect", !.obj = o,
                                         !.before = sess[o].pending_results,
                                         !.pending = sess[o].pending_tasks]
    /\ UNCHANGED <<sessions, n_obj, task_to_user, delivered, n_results, st, sent>>
    /\ UNCHANGED <<now, outsideSM>>

\* UserSessionManager.register_task, called once for a task before its result
\* is stored
RegisterTask(u, t) ==
    /\ t = n_results + 1
    /\ task_to_user[t] = "none"
    /\ task_to_user' = [task_to_user EXCEPT ![t] = u]
    /\ IF sessions[u] # 0
       THEN sess' = [sess EXCEPT ![sessions[u]].pending_tasks = Append(@, t)]
       ELSE UNCHANGED sess
    /\ sm_event' = NoEvent
    /\ UNCHANGED <<sessions, n_obj, delivered, n_results, st, dl, sent, row>>
    /\ UNCHANGED <<now, outsideSM>>

\* (mutant) the result is not kept
AppendResult_Drop(ss, o, t) == ss

\* session.pending_results.append(task_result)
AppendResult(ss, o, t) == [ss EXCEPT ![o].pending_results = Append(@, t)]

\* UserSessionManager.store_result up to its first suspension: lookup of the
\* session, removal from pending_tasks, construction of the TaskResult, then
\* either the start of send_json (online) or the append (offline).
StoreBegin(u) ==
    /\ n_results < MaxResults
    /\ LET t == n_results + 1
           o == sessions[u]
       IN /\ n_results' = t
          /\ IF o = 0
             THEN \* "会话不存在": the result is returned without being kept
                  /\ st' = [st EXCEPT ![t] = [IdleStore EXCEPT !.pc = "dropped", !.user = u]]
                  /\ sm_event' = [NoEvent EXCEPT !.kind = "store_dropped", !.task = t]
                  /\ UNCHANGED <<sess, dl, row>>
             ELSE LET s1 == [sess EXCEPT ![o].pending_tasks = RemoveFirst(@, t)]
                  IN IF sess[o].is_online /\ sess[o].websocket # NoHandle
                     THEN /\ sess' = s1
                          /\ st' = [st EXCEPT ![t] =
                                      [pc |-> "sending", user |-> u, obj |-> o,
                                       ws |-> sess[o].websocket]]
                          /\ sm_event' = NoEvent
                          /\ dl' = Disturb(dl, o, 0)
                          /\ row' = [row EXCEPT ![o] = "none"]
                     ELSE /\ sess' = AppendResult(s1, o, t)
                          /\ st' = [st EXCEPT ![t] =
                                      [pc |-> "done", user |-> u, obj |-> o,
                                       ws |-> NoHandle]]
                          /\ sm_event' = [NoEvent EXCEPT !.kind = "store_offline",
                                                         !.obj = o, !.task = t,
                                                         !.before = sess[o].pending_results]
                          /\ dl' = Disturb(dl, o, 0)
                          /\ row' = [row EXCEPT ![o] = "none"]
    /\ UNCHANGED <<sessions, n_obj, task_to_user, delivered, sent>>
    /\ UNCHANGED <<now, outsideSM>>

\* the send_json of store_result returned (ok) or raised (~ok)
StoreSendDone(t, ok) ==
    /\ st[t].pc = "sending"
    /\ ok \in SendOutcomes(st[t].ws)
    /\ LET o == st[t].obj
       IN /\ IF ok
             THEN /\ delivered' = [delivered EXCEPT ![t] = TRUE]
                  /\ sent' = sent \cup {t}
                  /\ UNCHANGED sess
                  /\ sm_event' = [NoEvent EXCEPT !.kind = "store_sent", !.obj = o,
                                                 !.task = t,
                                                 !.before = sess[o].pending_results]
             ELSE /\ sess' = AppendResult(sess, o, t)
                  /\ UNCHANGED <<delivered, sent>>
                  /\ sm_event' = [NoEvent EXCEPT !.kind = "store_queued", !.obj = o,
                                                 !.task = t,
                                                 !.before = sess[o].pending_results]
          /\ st' = [st EXCEPT ![t].pc = "done"]
          /\ dl' = Disturb(dl, o, 0)
          /\ row' = [row EXCEPT ![o] = "none"]
    /\ UNCHANGED <<sessions, n_obj, task_to_user, n_results>>
    /\ UNCHANGED <<now, outsideSM>>

\* the first index j >= i of a result of `pending` not yet delivered
\* (Len(pending) + 1 when there is none): the `if not result.delivered` scan
RECURSIVE NextUndelivered(_, _, _)
NextUndelivered(pending, i, dlv) ==
    IF i > Len(pending) THEN i
    ELSE IF ~dlv[pending[i]] THEN i
         ELSE NextUndelivered(pending, i + 1, dlv)

\* (mutant) the delivered flag is not set
MarkDelivered_Skip(dlv, t) == dlv

\* result.delivered = True
MarkDelivered(dlv, t) == [dlv EXCEPT ![t] = TRUE]

\* (mutant) the queue is emptied at the return
CleanDelivered_Clear(q, dlv) == <<>>

\* (mutant) the delivered entries are not cleaned from the queue
CleanDelivered_KeepAll(q, dlv) == q

\* [r for r in session.pending_results if not r.delivered]
CleanDelivered(q, dlv) ==
    LET undelivered(t) == ~dlv[t] IN SelectSeq(q, undelivered)

\* the tail of deliver_pending_results: the filter of the queue and the return
DeliverReturn(d, rec, dlv, snt, failed_at) ==
    LET o == rec.obj
    IN /\ sess' = [sess EXCEPT ![o].pending_results = CleanDelivered(@, dlv)]
       /\ dl' = [Disturb(dl, o, d) EXCEPT ![d] = IdleDeliver]
       /\ row' = [row EXCEPT ![o] = IF ~rec.clean THEN "none"
                                    ELSE IF failed_at # 0 THEN "failed"
                                    ELSE IF rec.delivered_count > 0 THEN "ok_sent"
                                    ELSE "ok"]
       /\ sm_event' = [kind |-> "deliver_return", obj |-> o, task |-> 0, call |-> d,
                       ret |-> rec.delivered_count, pending |-> rec.pending,
                       before |-> sess[o].pending_results, failed_at |-> failed_at,
                       clean |-> rec.clean, prev |-> rec.prev, tried |-> TRUE]
       /\ delivered' = dlv
       /\ sent' = snt

\* the `for result in pending` loop from index i up to its next suspension:
\* the entries already delivered are skipped; the next one is sent over
\* session.websocket (None raises, which the except turns into a break)
DeliverContinue(d, rec, i, dlv, snt) ==
    LET o == rec.obj
        j == NextUndelivered(rec.pending, i, dlv)
    IN IF j > Len(rec.pending)
       THEN DeliverReturn(d, rec, dlv, snt, 0)
       ELSE IF sess[o].websocket = NoHandle
            THEN DeliverReturn(d, rec, dlv, snt, j)
            ELSE /\ dl' = [Disturb(dl, o, d) EXCEPT ![d] =
                             [rec EXCEPT !.pc = "sending", !.idx = j,
                                         !.ws = sess[o].websocket]]
                 /\ row' = [row EXCEPT ![o] = "none"]
                 /\ sm_event' = NoEvent
                 /\ delivered' = dlv
                 /\ sent' = snt
                 /\ UNCHANGED sess

\* UserSessionManager.deliver_pending_results up to its first suspension
DeliverBegin(d, u) ==
    /\ dl[d].pc = "idle"
    /\ \A e \in DeliverIds : e < d => dl[e].pc # "idle"   \* calls are interchangeable
    /\ LET o == sessions[u]
       IN IF o = 0
          THEN \* `if not session`: return 0
               /\ sm_event' = [NoEvent EXCEPT !.kind = "deliver_return", !.call = d]
               /\ UNCHANGED <<sess, dl, row, delivered, sent>>
          ELSE IF sess[o].websocket = NoHandle
          THEN \* `if not session.websocket`: return 0
               /\ sm_event' = [NoEvent EXCEPT !.kind = "deliver_return", !.obj = o,
                                              !.call = d,
                                              !.before = sess[o].pending_results,
                                              !.pending = sess[o].pending_results,
                                              !.prev = row[o]]
               /\ dl' = Disturb(dl, o, d)
               /\ row' = [row EXCEPT ![o] = "ok"]
               /\ UNCHANGED <<sess, delivered, sent>>
          ELSE DeliverContinue(d,
                   [IdleDeliver EXCEPT !.obj = o, !.pending = sess[o].pending_results,
                        !.prev = row[o],
                        !.clean = \A e \in DeliverIds :
                                     ~(dl[e].pc = "sending" /\ dl[e].obj = o)],
                   1, delivered, sent)
    /\ UNCHANGED <<sessions, n_obj, task_to_user, n_results, st>>
    /\ UNCHANGED <<now, outsideSM>>

\* a send_json of deliver_pending_results returned (ok) or raised (~ok)
DeliverSendDone(d, ok) ==
    /\ dl[d].pc = "sending"
    /\ ok \in SendOutcomes(dl[d].ws)
    /\ LET t == dl[d].pending[dl[d].idx]
       IN IF ok
          THEN DeliverContinue(d,
                   [dl[d] EXCEPT !.delivered_count = @ + 1],
                   dl[d].idx + 1, MarkDelivered(delivered, t), sent \cup {t})
          ELSE DeliverReturn(d, dl[d], delivered, sent, dl[d].idx)
    /\ UNCHANGED <<sessions, n_obj, task_to_user, n_results, st>>
    /\ UNCHANGED <<now, outsideSM>>

\* UserSessionManager.cleanup_inactive_sessions(max_inactive_hours)
CleanupInactiveSessions(max_inactive) ==
    LET to_remove == {u \in Users :
                         /\ sessions[u] # 0
                         /\ now - sess[sessions[u]].last_active > max_inactive
                         /\ ~sess[sessions[u]].is_online}
    IN /\ sessions' = [u \in Users |-> IF u \in to_remove THEN 0 ELSE sessions[u]]
       /\ sm_event' = [NoEvent EXCEPT !.kind = "cleanup", !.ret = Cardinality(to_remove)]
       /\ UNCHANGED <<sess, n_obj, task_to_user, delivered, n_results, st, dl, sent, row>>
       /\ UNCHANGED <<now, outsideSM>>

TickSM == Tick(MaxIdleTime) /\ UNCHANGED <<smVars, outsideSM>>


(***************************************************************************)
(* TaskManager                                                             *)
(***************************************************************************)
TmIds == 1..MaxTasks
Terminal == {"completed", "failed", "cancelled"}

\* BackgroundTask as the dataclass constructs it. Timestamps are kept as
\* set / not set; func is kept as what the runtime can see of it: whether it is
\* a coroutine function.
NewTask(bg, coro, user) ==
    [status |-> "pending", started_at |-> FALSE, completed_at |-> FALSE,
     result |-> "none", error |-> "none", is_background |-> bg,
     coro |-> coro, user_id |-> user, progress |-> 0]

NoTask == [NewTask(TRUE, FALSE, "") EXCEPT !.status = "absent"]

IdleWaiter == [pc |-> "idle", task |-> 0, timeout |-> FALSE, out |-> "none"]

\* TaskManager.__init__
TMInitState ==
    /\ task_counter = 0
    /\ tasks = [t \in TmIds |-> NoTask]
    /\ async_tasks = {}
    /\ async_pc = [t \in TmIds |-> "none"]
    /\ must_cancel = [t \in TmIds |-> FALSE]
    /\ executor_queue = <<>>
    /\ worker_pc = [t \in TmIds |-> "none"]
    /\ executor_down = FALSE
    /\ handoff = [t \in TmIds |-> "none"]
    /\ notification_callback = FALSE
    /\ notified = [t \in TmIds |-> 0]
    /\ sd_pc = "idle"
    /\ waiter = IdleWaiter
    /\ cancel_ret = [t \in TmIds |-> "none"]
    /\ cancel_pc = 0
    /\ pg_event = [n |-> 0, task |-> 0, value |-> 0]

\* the event loop runs coroutine steps unless its thread is blocked inside
\* executor.shutdown(wait=True) or is inside a call of cancel_task
LoopFree == sd_pc # "blocking" /\ cancel_pc = 0

\* worker threads occupied by a work item
Busy ==
    {t \in TmIds :
        worker_pc[t] \in {"exec", "w_result", "w_error", "w_fin_ok", "w_fin_exc"}}

\* TaskManager.set_notification_callback (done while wiring, before any submit)
SetNotificationCallback ==
    /\ LoopFree
    /\ task_counter = 0
    /\ ~notification_callback
    /\ notification_callback' = TRUE
    /\ UNCHANGED <<task_counter, tasks, async_tasks, async_pc, must_cancel,
                   executor_queue, worker_pc, executor_down, handoff, notified,
                   sd_pc, waiter>>
    /\ UNCHANGED <<cancel_ret, cancel_pc, pg_event, outsideTM>>

\* TaskManager._notify_completion: the callback is awaited once if it is set
\* and the task has an owner
Notify(n, t, user) ==
    IF notification_callback /\ user # ""
    THEN [n EXCEPT ![t] = @ + 1]
    ELSE n

\* TaskManager.submit_task
SubmitTask(bg, coro, user) ==
    /\ LoopFree
    /\ task_counter < MaxTasks
    /\ LET t == task_counter + 1
       IN /\ task_counter' = t
          /\ tasks' = [tasks EXCEPT ![t] = NewTask(bg, coro, user)]
          /\ IF bg
             THEN IF executor_down
                  THEN \* executor.submit raises RuntimeError: the task stays registered
                       UNCHANGED <<executor_queue, worker_pc, async_tasks, async_pc>>
                  ELSE /\ executor_queue' = Append(executor_queue, t)
                       /\ worker_pc' = [worker_pc EXCEPT ![t] = "queued"]
                       /\ UNCHANGED <<async_tasks, async_pc>>
             ELSE /\ async_pc' = [async_pc EXCEPT ![t] = "created"]
                  /\ async_tasks' = async_tasks \cup {t}
                  /\ UNCHANGED <<executor_queue, worker_pc>>
    /\ UNCHANGED <<must_cancel, executor_down, handoff, notification_callback,
                   notified, sd_pc, waiter>>
    /\ UNCHANGED <<cancel_ret, cancel_pc, pg_event, outsideTM>>

\* a worker thread takes the oldest work item. For a background task it is
\* _run_task, which starts with status = RUNNING and started_at; for a
\* foreground task it is the lambda of run_in_executor
WorkerStart ==
    /\ executor_queue # <<>>
    /\ Cardinality(Busy) < MaxWorkers
    /\ LET t == Head(executor_queue)
       IN /\ executor_queue' = Tail(executor_queue)
          /\ worker_pc' = [worker_pc EXCEPT ![t] = "exec"]
          /\ tasks' = IF tasks[t].is_background
                      THEN [tasks EXCEPT ![t].status = "running",
                                         ![t].started_at = TRUE]
                      ELSE tasks
    /\ UNCHANGED <<task_counter, async_tasks, async_pc, must_cancel, executor_down,
                   handoff, notification_callback, notified, sd_pc, waiter>>
    /\ UNCHANGED <<cancel_ret, cancel_pc, pg_event, outsideTM>>

\* _run_task: task.func returned (ok) or raised (~ok), and the thread writes
\* task.status
RunTaskSetStatus(t, ok) ==
    /\ worker_pc[t] = "exec"
    /\ tasks[t].is_background
    /\ tasks' = [tasks EXCEPT ![t].status = IF ok THEN "completed" ELSE "failed"]
    /\ worker_pc' = [worker_pc EXCEPT ![t] = IF ok THEN "w_result" ELSE "w_error"]
    /\ UNCHANGED <<task_counter, async_tasks, async_pc, must_cancel, executor_queue,
                   executor_down, handoff, notification_callback, notified, sd_pc,
                   waiter>>
    /\ UNCHANGED <<cancel_ret, cancel_pc, pg_event, outsideTM>>

\* _run_task: task.result = result, or task.error = str(e)
RunTaskSetResult(t) ==
    /\ worker_pc[t] \in {"w_result", "w_error"}
    /\ tasks' = IF worker_pc[t] = "w_result"
                THEN [tasks EXCEPT ![t].result = "value"]
                ELSE [tasks EXCEPT ![t].error = "err"]
    /\ worker_pc' = [worker_pc EXCEPT ![t] = IF @ = "w_result" THEN "w_fin_ok"
                                               ELSE "w_fin_exc"]
    /\ UNCHANGED <<task_counter, async_tasks, async_pc, must_cancel, executor_queue,
                   executor_down, handoff, notification_callback, notified, sd_pc,
                   waiter>>
    /\ UNCHANGED <<cancel_ret, cancel_pc, pg_event, outsideTM>>

\* _run_task: the finally (completed_at), then the future completes and
\* done_callback posts _on_task_complete to the loop
RunTaskFinish(t) ==
    /\ worker_pc[t] \in {"w_fin_ok", "w_fin_exc"}
    /\ tasks' = [tasks EXCEPT ![t].completed_at = TRUE]
    /\ handoff' = [handoff EXCEPT ![t] = IF worker_pc[t] = "w_fin_ok" THEN "ok"
                                         ELSE "exc"]
    /\ worker_pc' = [worker_pc EXCEPT ![t] = "done"]
    /\ UNCHANGED <<task_counter, async_tasks, async_pc, must_cancel, executor_queue,
                   executor_down, notification_callback, notified, sd_pc, waiter>>
    /\ UNCHANGED <<cancel_ret, cancel_pc, pg_event, outsideTM>>

\* the lambda of run_in_executor returned or raised in its worker thread
FgWorkerFinish(t, ok) ==
    /\ worker_pc[t] = "exec"
    /\ ~tasks[t].is_background
    /\ worker_pc' = [worker_pc EXCEPT ![t] = IF ok THEN "ret_ok" ELSE "ret_exc"]
    /\ UNCHANGED <<task_counter, tasks, async_tasks, async_pc, must_cancel,
                   executor_queue, executor_down, handoff, notification_callback,
                   notified, sd_pc, waiter>>
    /\ UNCHANGED <<cancel_ret, cancel_pc, pg_event, outsideTM>>

\* TaskManager._on_task_complete, run on the loop
OnTaskComplete(t) ==
    /\ LoopFree
    /\ handoff[t] \in {"ok", "exc"}
    /\ tasks' = IF handoff[t] = "ok"
                THEN [tasks EXCEPT ![t].result = "value"]
                ELSE [tasks EXCEPT ![t].error = "err"]
    /\ notified' = Notify(notified, t, tasks[t].user_id)
    /\ handoff' = [handoff EXCEPT ![t] = "consumed"]
    /\ UNCHANGED <<task_counter, async_tasks, async_pc, must_cancel, executor_queue,
                   worker_pc, executor_down, notification_callback, sd_pc, waiter>>
    /\ UNCHANGED <<cancel_ret, cancel_pc, pg_event, outsideTM>>

\* _run_async_task up to its first suspension: status = RUNNING, started_at,
\* then `await task.func(...)` or `await loop.run_in_executor(...)`; on a
\* shut-down executor run_in_executor raises, which the except and the finally
\* handle at once
FgStart(t) ==
    /\ LoopFree
    /\ async_pc[t] = "created"
    /\ ~must_cancel[t]
    /\ IF tasks[t].coro
       THEN /\ tasks' = [tasks EXCEPT ![t].status = "running", ![t].started_at = TRUE]
            /\ async_pc' = [async_pc EXCEPT ![t] = "await"]
            /\ UNCHANGED <<executor_queue, worker_pc, notified>>
       ELSE IF executor_down
            THEN /\ tasks' = [tasks EXCEPT ![t].status = "failed",
                                           ![t].started_at = TRUE,
                                           ![t].error = "err",
                                           ![t].completed_at = TRUE]
                 /\ notified' = Notify(notified, t, tasks[t].user_id)
                 /\ async_pc' = [async_pc EXCEPT ![t] = "done_exc"]
                 /\ UNCHANGED <<executor_queue, worker_pc>>
            ELSE /\ tasks' = [tasks EXCEPT ![t].status = "running",
                                           ![t].started_at = TRUE]
                 /\ executor_queue' = Append(executor_queue, t)
                 /\ worker_pc' = [worker_pc EXCEPT ![t] = "queued"]
                 /\ async_pc' = [async_pc EXCEPT ![t] = "await"]
                 /\ UNCHANGED notified
    /\ UNCHANGED <<task_counter, async_tasks, must_cancel, executor_down, handoff,
                   notification_callback, sd_pc, waiter>>
    /\ UNCHANGED <<cancel_ret, cancel_pc, pg_event, outsideTM>>

\* _run_async_task resumes with the outcome of the awaited work: the status
\* and result (or error) writes, the finally with completed_at and
\* _notify_completion
FgResume(t, ok) ==
    /\ LoopFree
    /\ async_pc[t] = "await"
    /\ ~must_cancel[t]
    /\ IF tasks[t].coro
       THEN UNCHANGED worker_pc
       ELSE /\ worker_pc[t] = (IF ok THEN "ret_ok" ELSE "ret_exc")
            /\ worker_pc' = [worker_pc EXCEPT ![t] = "done"]
    /\ tasks' = IF ok
                THEN [tasks EXCEPT ![t].status = "completed", ![t].result = "value",
                                   ![t].completed_at = TRUE]
                ELSE [tasks EXCEPT ![t].status = "failed", ![t].error = "err",
                                   ![t].completed_at = TRUE]
    /\ notified' = Notify(notified, t, tasks[t].user_id)
    /\ async_pc' = [async_pc EXCEPT ![t] = IF ok THEN "done_ok" ELSE "done_exc"]
    /\ UNCHANGED <<task_counter, async_tasks, must_cancel, executor_queue,
                   executor_down, handoff, notification_callback, sd_pc, waiter>>
    /\ UNCHANGED <<cancel_ret, cancel_pc, pg_event, outsideTM>>

\* the loop delivers a pending Task.cancel(). A task that never started ends
\* without running any of _run_async_task; a suspended one gets CancelledError
\* at its await, which `except Exception` does not catch, so only the finally
\* runs. A run_in_executor work item still queued is cancelled with it.
FgCancelled(t) ==
    /\ LoopFree
    /\ must_cancel[t]
    /\ async_pc[t] \in {"created", "await"}
    /\ must_cancel' = [must_cancel EXCEPT ![t] = FALSE]
    /\ async_pc' = [async_pc EXCEPT ![t] = "cancelled"]
    /\ IF async_pc[t] = "await"
       THEN /\ tasks' = [tasks EXCEPT ![t].completed_at = TRUE]
            /\ notified' = Notify(notified, t, tasks[t].user_id)
       ELSE UNCHANGED <<tasks, notified>>
    /\ IF worker_pc[t] = "queued"
       THEN /\ executor_queue' = RemoveFirst(executor_queue, t)
            /\ worker_pc' = [worker_pc EXCEPT ![t] = "cancelled"]
       ELSE UNCHANGED <<executor_queue, worker_pc>>
    /\ UNCHANGED <<task_counter, async_tasks, executor_down, handoff,
                   notification_callback, sd_pc, waiter>>
    /\ UNCHANGED <<cancel_ret, cancel_pc, pg_event, outsideTM>>

\* cancel_task returns True for task t
CanCancel(t) == t <= task_counter /\ tasks[t].status \notin Terminal

\* cancel_task past its two early returns: the status write, the
\* cancellation of the asyncio task, and the return of True
CancelTaskWrites(t) ==
    /\ tasks' = [tasks EXCEPT ![t].status = "cancelled"]
    /\ async_tasks' = async_tasks \ {t}
    /\ must_cancel' = IF t \in async_tasks /\ async_pc[t] \in {"created", "await"}
                      THEN [must_cancel EXCEPT ![t] = TRUE]
                      ELSE must_cancel
    /\ cancel_ret' = [cancel_ret EXCEPT ![t] = "true"]

\* the body of TaskManager.cancel_task, with its return value
CancelTaskBody(t) ==
    IF CanCancel(t)
    THEN CancelTaskWrites(t)
    ELSE /\ UNCHANGED <<tasks, async_tasks, must_cancel>>
         /\ cancel_ret' = [cancel_ret EXCEPT ![t] = "false"]

\* TaskManager.cancel_task, for a known or an unknown task id
CancelTask(t) ==
    /\ LoopFree
    /\ CancelTaskBody(t)
    /\ UNCHANGED <<task_counter, async_pc, executor_queue, worker_pc, executor_down,
                   handoff, notification_callback, notified, sd_pc, waiter>>
    /\ UNCHANGED <<cancel_pc, pg_event, outsideTM>>

\* cancel_task of a background task whose work item is with the pool: the
\* loop thread has read a non-terminal status, and the worker thread may run
\* before the loop thread writes
CancelTaskCheck(t) ==
    /\ LoopFree
    /\ CanCancel(t)
    /\ tasks[t].is_background
    /\ worker_pc[t] = "exec"
    /\ cancel_pc' = t
    /\ UNCHANGED <<task_counter, tasks, async_tasks, async_pc, must_cancel,
                   executor_queue, worker_pc, executor_down, handoff,
                   notification_callback, notified, sd_pc, waiter>>
    /\ UNCHANGED <<cancel_ret, pg_event, outsideTM>>

\* ... and the loop thread goes on from the status check to the write
CancelTaskWrite ==
    /\ cancel_pc # 0
    /\ CancelTaskWrites(cancel_pc)
    /\ cancel_pc' = 0
    /\ UNCHANGED <<task_counter, async_pc, executor_queue, worker_pc, executor_down,
                   handoff, notification_callback, notified, sd_pc, waiter>>
    /\ UNCHANGED <<pg_event, outsideTM>>

\* TaskManager.shutdown(wait) up to its first suspension (or its end)
ShutdownBegin(wait) ==
    /\ LoopFree
    /\ sd_pc = "idle"
    /\ must_cancel' = [t \in TmIds |->
                          IF t \in async_tasks /\ async_pc[t] \in {"created", "await"}
                          THEN TRUE ELSE must_cancel[t]]
    /\ tasks' = [t \in TmIds |->
                    IF tasks[t].status = "running"
                    THEN [tasks[t] EXCEPT !.status = "cancelled"]
                    ELSE tasks[t]]
    /\ IF wait /\ async_tasks # {}
       THEN /\ sd_pc' = "await_async"
            /\ UNCHANGED <<async_tasks, executor_down>>
       ELSE /\ async_tasks' = {}
            /\ executor_down' = TRUE
            /\ sd_pc' = IF wait THEN "blocking" ELSE "done"
    /\ UNCHANGED <<task_counter, async_pc, executor_queue, worker_pc, handoff,
                   notification_callback, notified, waiter>>
    /\ UNCHANGED <<cancel_ret, cancel_pc, pg_event, outsideTM>>

\* shutdown(wait=True): the awaits of wait_for(shield(async_task), 2.0) are
\* over. CancelledError and TimeoutError are swallowed; the exception of a
\* failed foreground task is not, and ends shutdown before the executor is
\* shut down. Otherwise _async_tasks is cleared and executor.shutdown(wait=True)
\* blocks the loop thread.
ShutdownAwaitDone ==
    /\ LoopFree
    /\ sd_pc = "await_async"
    /\ IF \E t \in async_tasks : async_pc[t] = "done_exc"
       THEN /\ sd_pc' = "raised"
            /\ UNCHANGED <<async_tasks, executor_down>>
       ELSE /\ async_tasks' = {}
            /\ executor_down' = TRUE
            /\ sd_pc' = "blocking"
    /\ UNCHANGED <<task_counter, tasks, async_pc, must_cancel, executor_queue,
                   worker_pc, handoff, notification_callback, notified, waiter>>
    /\ UNCHANGED <<cancel_ret, cancel_pc, pg_event, outsideTM>>

\* executor.shutdown(wait=True) returns once every work item has run
ShutdownEnd ==
    /\ sd_pc = "blocking"
    /\ executor_queue = <<>>
    /\ Busy = {}
    /\ sd_pc' = "done"
    /\ UNCHANGED <<task_counter, tasks, async_tasks, async_pc, must_cancel,
                   executor_queue, worker_pc, executor_down, handoff,
                   notification_callback, notified, waiter>>
    /\ UNCHANGED <<cancel_ret, cancel_pc, pg_event, outsideTM>>

\* what wait_for_task does once the task is no longer pending or running:
\* return task.result, raise Exception(f"...: {task.error}") or raise the
\* cancellation Exception
WaitOutcome(task) ==
    CASE task.status = "completed" -> task.result
      [] task.status = "failed" ->
             IF task.error = "none" THEN "Exception_failed:None"
             ELSE "Exception_failed:err"
      [] task.status = "cancelled" -> "Exception_cancelled"
      [] OTHER -> "none"

\* TaskManager.wait_for_task up to its first sleep (or its end)
WaitBegin(t, timeout) ==
    /\ LoopFree
    /\ waiter.pc = "idle"
    /\ waiter' =
         IF t > task_counter
         THEN [pc |-> "returned", task |-> t, timeout |-> timeout, out |-> "ValueError"]
         ELSE IF tasks[t].status \notin Terminal
         THEN [pc |-> "sleeping", task |-> t, timeout |-> timeout, out |-> "none"]
         ELSE [pc |-> "returned", task |-> t, timeout |-> timeout,
               out |-> WaitOutcome(tasks[t])]
    /\ UNCHANGED <<task_counter, tasks, async_tasks, async_pc, must_cancel,
                   executor_queue, worker_pc, executor_down, handoff,
                   notification_callback, notified, sd_pc>>
    /\ UNCHANGED <<cancel_ret, cancel_pc, pg_event, outsideTM>>

\* wait_for_task after a sleep: the timeout check (elapsed is measured from
\* started_at, and is 0 while that is not set), then the loop condition
WaitWake(expired) ==
    /\ LoopFree
    /\ waiter.pc = "sleeping"
    /\ LET t == waiter.task
       IN IF waiter.timeout /\ tasks[t].started_at /\ expired
          THEN /\ CancelTaskBody(t)
               /\ waiter' = [waiter EXCEPT !.pc = "returned", !.out = "TimeoutError"]
          ELSE /\ tasks[t].status \in Terminal
               /\ waiter' = [waiter EXCEPT !.pc = "returned",
                                           !.out = WaitOutcome(tasks[t])]
               /\ UNCHANGED <<tasks, async_tasks, must_cancel, cancel_ret>>
    /\ UNCHANGED <<task_counter, async_pc, executor_queue, worker_pc, executor_down,
                   handoff, notification_callback, notified, sd_pc>>
    /\ UNCHANGED <<cancel_pc, pg_event, outsideTM>>

\* progress values in tenths: 1.0 is ProgressOne
ProgressOne == 10
ProgressInputs == {-5, 5, 15}

\* min(a, b) and max(a, b) as Python evaluates them
PyMin(a, b) == IF b < a THEN b ELSE a
PyMax(a, b) == IF b > a THEN b ELSE a

\* max(0.0, min(1.0, progress))
ClampProgress(v) == PyMax(0, PyMin(ProgressOne, v))

\* TaskManager.update_progress
UpdateProgress(t, v) ==
    /\ LoopFree
    /\ pg_event.n < MaxProgressCalls
    /\ pg_event' = [n |-> pg_event.n + 1, task |-> t, value |-> v]
    /\ tasks' = IF t <= task_counter
                THEN [tasks EXCEPT ![t].progress = ClampProgress(v)]
                ELSE tasks
    /\ UNCHANGED <<task_counter, async_tasks, async_pc, must_cancel, executor_queue,
                   worker_pc, executor_down, handoff, notification_callback,
                   notified, sd_pc, waiter, cancel_ret, cancel_pc>>
    /\ UNCHANGED outsideTM

(***************************************************************************)
(* ErrorHandler.retry_with_backoff                                         *)
(* Delays are whole numbers of seconds in the configuration; computed      *)
(* delays are kept doubled, so that the factor 1.5 stays exact.            *)
(***************************************************************************)
\* RetryConfig defaults
DefaultMaxAttempts == 3
DefaultBaseDelay == 1
DefaultMaxDelay == 30
DefaultExpBase == 2
\* backoff_multiplier = 1.5, as the fraction 3/2
BackoffMultiplierNum == 3
BackoffMultiplierDen == 2

\* last_exception = None
NoError == 0

\* no entry for the error type in self._error_patterns
NoPattern == [count |-> 0, success_count |-> 0, attempts_sum |-> 0]

\* thresholds of get_recovery_strategy on avg_attempts
RetryAvgLimit == 2
SwitchAvgLimit == 4

IdleRetry ==
    [pc |-> "idle", attempt |-> 0, last_exception |-> NoError, calls |-> 0,
     slept |-> <<>>, out |-> "none", err |-> NoError, rejected |-> FALSE]

\* ErrorHandler.__init__ and the RetryConfig handed to retry_with_backoff
EHInitState(attempts, base, maxd, expb) ==
    /\ max_attempts = attempts
    /\ base_delay = base
    /\ max_delay = maxd
    /\ exponential_base = expb
    /\ error_history = <<>>
    /\ error_patterns = NoPattern
    /\ rb = IdleRetry

\* b ** n
RECURSIVE Pow(_, _)
Pow(b, n) == IF n = 0 THEN 1 ELSE b * Pow(b, n - 1)

\* ErrorHandler._calculate_delay(attempt, config), doubled
CalculateDelay(attempt) ==
    IF attempt = 1
    THEN BackoffMultiplierDen * base_delay
    ELSE LET delay == base_delay * Pow(exponential_base, attempt - 1)
                          * BackoffMultiplierNum
         IN PyMin(delay, BackoffMultiplierDen * max_delay)

\* (variant) the failure is recorded with the number of retries, not attempts
RecordError_RetriesOnly(h, e, attempt) ==
    Append(h, [error |-> e, retry_count |-> attempt - 1, success |-> FALSE])

\* ErrorHandler._record_error: the append to _error_history
RecordError(h, e, attempt) ==
    Append(h, [error |-> e, retry_count |-> attempt, success |-> FALSE])

\* ErrorHandler._update_error_pattern, called by _record_error only. The
\* running average avg_attempts is kept as the sum of the retry counts it
\* averages (avg_attempts = attempts_sum / success_count).
UpdateErrorPattern(pat, success, retry_count) ==
    [count |-> pat.count + 1,
     success_count |-> IF success THEN pat.success_count + 1 ELSE pat.success_count,
     attempts_sum |-> IF success THEN pat.attempts_sum + retry_count
                      ELSE pat.attempts_sum]

\* ErrorHandler.get_recovery_strategy for an error of the recorded type
GetRecoveryStrategy(pat) ==
    IF pat.count = 0 THEN "None"
    ELSE IF pat.success_count > 0
         THEN IF pat.attempts_sum <= RetryAvgLimit * pat.success_count
              THEN "retry_with_backoff"
              ELSE IF pat.attempts_sum <= SwitchAvgLimit * pat.success_count
                   THEN "switch_provider"
                   ELSE "fallback_action"
         ELSE "None"

\* (variant) the recovery is recorded as a failure
RecordRecovery_AsFailure(h, e, attempt) ==
    Append(h, [error |-> e, retry_count |-> attempt, success |-> FALSE])

\* ErrorHandler._record_recovery
RecordRecovery(h, e, attempt) ==
    Append(h, [error |-> e, retry_count |-> attempt, success |-> TRUE])

\* retry_with_backoff is called: the loop over range(1, max_attempts + 1)
\* starts with `await func()`, or is empty and the call returns None
RetryBegin ==
    /\ rb.pc = "idle"
    /\ rb' = IF max_attempts >= 1
             THEN [rb EXCEPT !.pc = "calling", !.attempt = 1, !.calls = 1]
             ELSE [rb EXCEPT !.pc = "returned", !.out = "None"]
    /\ UNCHANGED <<max_attempts, base_delay, max_delay, exponential_base,
                   error_history, error_patterns>>
    /\ UNCHANGED outsideEH

\* func() returned: the recovery record if an earlier attempt failed, return
AttemptSucceed ==
    /\ rb.pc = "calling"
    /\ error_history' = IF rb.attempt > 1 /\ rb.last_exception # NoError
                        THEN RecordRecovery(error_history, rb.last_exception,
                                            rb.attempt)
                        ELSE error_history
    /\ rb' = [rb EXCEPT !.pc = "returned", !.out = "value"]
    /\ UNCHANGED <<max_attempts, base_delay, max_delay, exponential_base,
                   error_patterns>>
    /\ UNCHANGED outsideEH

\* func() raised an Exception (the error of attempt k is numbered k);
\* retryable is what _should_retry answers for it
AttemptFail(retryable) ==
    /\ rb.pc = "calling"
    /\ IF ~retryable \/ rb.attempt >= max_attempts
       THEN /\ error_history' = RecordError(error_history, rb.attempt, rb.attempt)
            /\ error_patterns' = UpdateErrorPattern(error_patterns, FALSE, rb.attempt)
            /\ rb' = [rb EXCEPT !.pc = "raised", !.last_exception = rb.attempt,
                                !.out = "raised", !.err = rb.attempt,
                                !.rejected = ~retryable]
       ELSE /\ rb' = [rb EXCEPT !.pc = "sleeping", !.last_exception = rb.attempt,
                                !.slept = Append(@, CalculateDelay(rb.attempt))]
            /\ UNCHANGED <<error_history, error_patterns>>
    /\ UNCHANGED <<max_attempts, base_delay, max_delay, exponential_base>>
    /\ UNCHANGED outsideEH

\* asyncio.sleep(delay) is over: the next iteration calls func() again
SleepDone ==
    /\ rb.pc = "sleeping"
    /\ rb' = [rb EXCEPT !.pc = "calling", !.attempt = @ + 1, !.calls = @ + 1]
    /\ UNCHANGED <<max_attempts, base_delay, max_delay, exponential_base,
                   error_history, error_patterns>>
    /\ UNCHANGED outsideEH

(***************************************************************************)
(* CircuitBreaker                                                          *)
(***************************************************************************)
CallIds == 1..MaxCalls

\* CircuitBreaker._time_since_failure
TimeSinceFailure ==
    IF last_failure_time = NoTime THEN 0 ELSE now - last_failure_time

\* (mutant) an open breaker lets every call through
ShouldAttemptReset_Always == TRUE

\* CircuitBreaker._should_attempt_reset
ShouldAttemptReset ==
    IF last_failure_time = NoTime THEN TRUE
    ELSE TimeSinceFailure >= recovery_timeout

\* (mutant) an increment that is lost
IncrementCount_Lost(count) == count

\* self._failure_count += 1 in _on_failure, run between two suspensions
IncrementCount(count) == count + 1

\* (mutant) the breaker opens one failure late
ReachedThreshold_Strict(count) == count > failure_threshold

\* the threshold test of _on_failure
ReachedThreshold(count) == count >= failure_threshold

\* CircuitBreaker.__init__(failure_threshold, recovery_timeout)
CBInitState(threshold, timeout) ==
    /\ failure_threshold = threshold
    /\ recovery_timeout = timeout
    /\ failure_count = 0
    /\ last_failure_time = NoTime
    /\ state = "closed"
    /\ cb_pc = [c \in CallIds |-> "idle"]
    /\ cb_probe = 0
    /\ cb_event = [kind |-> "init", call |-> 0]
    /\ consec_failures = 0

\* CircuitBreaker.call up to the first suspension: the open check, then either
\* the fast-fail raise or the start of `await func()`.
CallBegin(c) ==
    /\ cb_pc[c] = "idle"
    /\ IF state = "open"
       THEN IF ShouldAttemptReset
            THEN /\ state' = "half-open"
                 /\ cb_pc' = [cb_pc EXCEPT ![c] = "running"]
                 /\ cb_probe' = c
                 /\ cb_event' = [kind |-> "probe", call |-> c]
            ELSE \* raise CircuitBreakerOpenError: func is not invoked
                 /\ cb_event' = [kind |-> "rejected", call |-> c]
                 /\ UNCHANGED <<state, cb_pc, cb_probe>>
       ELSE /\ cb_pc' = [cb_pc EXCEPT ![c] = "running"]
            /\ cb_event' = [kind |-> "admitted", call |-> c]
            /\ UNCHANGED <<state, cb_probe>>
    /\ UNCHANGED <<now, failure_threshold, recovery_timeout, failure_count,
                   last_failure_time, consec_failures>>
    /\ UNCHANGED outsideCB

\* func() returned: CircuitBreaker._on_success
CallSucceed(c) ==
    /\ cb_pc[c] = "running"
    /\ failure_count' = 0
    /\ state' = IF state = "half-open" THEN "closed" ELSE state
    /\ cb_pc' = [cb_pc EXCEPT ![c] = "idle"]
    /\ cb_probe' = IF cb_probe = c THEN 0 ELSE cb_probe
    /\ cb_event' = [kind |-> "success", call |-> c]
    /\ consec_failures' = 0
    /\ UNCHANGED <<now, failure_threshold, recovery_timeout, last_failure_time>>
    /\ UNCHANGED outsideCB

\* func() raised: CircuitBreaker._on_failure, then re-raise
CallFail(c) ==
    /\ cb_pc[c] = "running"
    /\ failure_count < MaxCount
    /\ failure_count' = IncrementCount(failure_count)
    /\ last_failure_time' = now
    /\ state' = IF ReachedThreshold(failure_count') THEN "open" ELSE state
    /\ cb_pc' = [cb_pc EXCEPT ![c] = "idle"]
    /\ cb_probe' = IF cb_probe = c THEN 0 ELSE cb_probe
    /\ cb_event' = [kind |-> "failure", call |-> c]
    /\ consec_failures' = consec_failures + 1
    /\ UNCHANGED <<now, failure_threshold, recovery_timeout>>
    /\ UNCHANGED outsideCB

\* CircuitBreaker.reset
Reset ==
    /\ failure_count' = 0
    /\ state' = "closed"
    /\ cb_probe' = 0
    /\ cb_event' = [kind |-> "reset", call |-> 0]
    /\ consec_failures' = 0
    /\ UNCHANGED <<now, failure_threshold, recovery_timeout, last_failure_time, cb_pc>>
    /\ UNCHANGED outsideCB

InitCB ==
    /\ now = 0
    /\ \E th \in 1..MaxThreshold, to \in 1..MaxTimeout : CBInitState(th, to)
    /\ SMInitState
    /\ TMInitState
    /\ PLInitState
    /\ EHInitState(DefaultMaxAttempts, DefaultBaseDelay, DefaultMaxDelay,
                   DefaultExpBase)

TickCB == Tick(MaxTime) /\ UNCHANGED <<cbVars, outsideCB>>

NextCB ==
    \/ \E c \in CallIds : CallBegin(c)
    \/ \E c \in CallIds : CallSucceed(c)
    \/ \E c \in CallIds : CallFail(c)
    \/ Reset
    \/ TickCB

SpecCB == InitCB /\ [][NextCB]_vars

(***************************************************************************)
(* Planner._execute_foreground_task for one skill: the skill's breaker      *)
(* around _execute, then retry_with_backoff around skill.execute            *)
(***************************************************************************)
MaxExecs == 5              \* foreground executions of the skill
TickSeconds == 15          \* the clock of this part advances in steps of 15 s
PlannerMaxTime == 45

\* CircuitBreaker(failure_threshold=3, recovery_timeout=30.0)
SkillFailureThreshold == 3
SkillRecoveryTimeout == 30

\* RetryConfig(max_attempts=2, base_delay=0.5, max_delay=5.0,
\* exponential_base=2.0), delays in half seconds
SkillRetryAttempts == 2
SkillRetryBaseDelay == 1
SkillRetryMaxDelay == 10
SkillRetryExpBase == 2

\* the call of the breaker made by the foreground execution
PlannerCall == 1

\* the except branch up to its first suspension: get_recovery_strategy, the
\* RetryConfig, and retry_with_backoff up to the first `await func()`, i.e.
\* the first skill.execute of _retry
FirstRetryAttempt == [IdleRetry EXCEPT !.pc = "calling", !.attempt = 1, !.calls = 1]

\* _execute_foreground_task up to its first suspension: the breaker's open
\* check, then either CircuitBreakerOpenError caught by `except Exception`
\* and the retries begun, or skill.execute under way inside _execute
FgExecBegin ==
    /\ pl.pc = "idle"
    /\ pl.n < MaxExecs
    /\ IF state = "open" /\ ~ShouldAttemptReset
       THEN /\ cb_event' = [kind |-> "rejected", call |-> PlannerCall]
            /\ rb' = FirstRetryAttempt
            /\ pl' = [pc |-> "retry", rejected |-> TRUE, n |-> pl.n + 1]
            /\ UNCHANGED <<state, cb_pc, cb_probe>>
       ELSE /\ state' = IF state = "open" THEN "half-open" ELSE state
            /\ cb_pc' = [cb_pc EXCEPT ![PlannerCall] = "running"]
            /\ cb_probe' = IF state = "open" THEN PlannerCall ELSE cb_probe
            /\ cb_event' = [kind |-> IF state = "open" THEN "probe" ELSE "admitted",
                            call |-> PlannerCall]
            /\ rb' = IdleRetry
            /\ pl' = [pc |-> "breaker", rejected |-> FALSE, n |-> pl.n + 1]
    /\ UNCHANGED <<now, failure_threshold, recovery_timeout, failure_count,
                   last_failure_time, consec_failures>>
    /\ UNCHANGED <<max_attempts, base_delay, max_delay, exponential_base,
                   error_history, error_patterns>>
    /\ UNCHANGED outsidePL

\* _execute returned: _on_success, and the result is returned
FgExecSucceed ==
    /\ pl.pc = "breaker"
    /\ failure_count' = 0
    /\ state' = IF state = "half-open" THEN "closed" ELSE state
    /\ cb_pc' = [cb_pc EXCEPT ![PlannerCall] = "idle"]
    /\ cb_probe' = 0
    /\ cb_event' = [kind |-> "success", call |-> PlannerCall]
    /\ consec_failures' = 0
    /\ pl' = [pl EXCEPT !.pc = "idle"]
    /\ UNCHANGED <<now, failure_threshold, recovery_timeout, last_failure_time>>
    /\ UNCHANGED <<ehVars, outsidePL>>

\* skill.execute raised inside _execute: _on_failure, the re-raise caught by
\* `except Exception`, and the retries begun
FgExecFail ==
    /\ pl.pc = "breaker"
    /\ failure_count' = IncrementCount(failure_count)
    /\ last_failure_time' = now
    /\ state' = IF ReachedThreshold(failure_count') THEN "open" ELSE state
    /\ cb_pc' = [cb_pc EXCEPT ![PlannerCall] = "idle"]
    /\ cb_probe' = 0
    /\ cb_event' = [kind |-> "failure", call |-> PlannerCall]
    /\ consec_failures' = consec_failures + 1
    /\ rb' = FirstRetryAttempt
    /\ pl' = [pl EXCEPT !.pc = "retry"]
    /\ UNCHANGED <<now, failure_threshold, recovery_timeout>>
    /\ UNCHANGED <<max_attempts, base_delay, max_delay, exponential_base,
                   error_history, error_patterns>>
    /\ UNCHANGED outsidePL

\* retry_with_backoff returned or raised: the result or the "retried" error
\* dictionary is returned
FgExecReturn ==
    /\ pl.pc = "retry"
    /\ rb.pc \in {"returned", "raised"}
    /\ pl' = [pl EXCEPT !.pc = "idle"]
    /\ UNCHANGED <<now, cbVars, ehVars, outsidePL>>

TickPL ==
    /\ now < PlannerMaxTime
    /\ now' = now + TickSeconds
    /\ UNCHANGED <<cbVars, ehVars, plVars, outsidePL>>

InitPL ==
    /\ now = 0
    /\ CBInitState(SkillFailureThreshold, SkillRecoveryTimeout)
    /\ SMInitState
    /\ TMInitState
    /\ PLInitState
    /\ EHInitState(SkillRetryAttempts, SkillRetryBaseDelay, SkillRetryMaxDelay,
                   SkillRetryExpBase)

\* every exception is retryable under the RetryConfig of the planner
NextPL ==
    \/ FgExecBegin
    \/ FgExecSucceed
    \/ FgExecFail
    \/ AttemptSucceed
    \/ AttemptFail(TRUE)
    \/ SleepDone
    \/ FgExecReturn
    \/ TickPL

SpecPL == InitPL /\ [][NextPL]_vars

\* the defaults of CircuitBreaker.__init__
DefaultThreshold == 5
DefaultTimeout == 60

InitSM ==
    /\ now = 0
    /\ CBInitState(DefaultThreshold, DefaultTimeout)
    /\ SMInitState
    /\ TMInitState
    /\ PLInitState
    /\ EHInitState(DefaultMaxAttempts, DefaultBaseDelay, DefaultMaxDelay,
                   DefaultExpBase)

NextSM ==
    \/ \E u \in Users, h \in Handles : ConnectUser(u, h)
    \/ \E u \in Users : DisconnectUser(u)
    \/ \E u \in Users, t \in TaskIds : RegisterTask(u, t)
    \/ \E u \in Users : StoreBegin(u)
    \/ \E t \in TaskIds, ok \in BOOLEAN : StoreSendDone(t, ok)
    \/ \E d \in DeliverIds, u \in Users : DeliverBegin(d, u)
    \/ \E d \in DeliverIds, ok \in BOOLEAN : DeliverSendDone(d, ok)
    \/ \E m \in 0..MaxIdleTime : CleanupInactiveSessions(m)
    \/ TickSM

SpecSM == InitSM /\ [][NextSM]_vars

InitTM ==
    /\ now = 0
    /\ CBInitState(DefaultThreshold, DefaultTimeout)
    /\ SMInitState
    /\ TMInitState
    /\ PLInitState
    /\ EHInitState(DefaultMaxAttempts, DefaultBaseDelay, DefaultMaxDelay,
                   DefaultExpBase)

OwnerIds == {"", "default"}

\* asyncio.iscoroutinefunction(task.func) is looked at for foreground tasks
\* only; _run_task treats every callable alike
FuncKinds(bg) == IF bg THEN {FALSE} ELSE BOOLEAN

NextTM ==
    \/ SetNotificationCallback
    \/ \E bg \in BOOLEAN :
          \E coro \in FuncKinds(bg), user \in OwnerIds : SubmitTask(bg, coro, user)
    \/ WorkerStart
    \/ \E t \in TmIds, ok \in BOOLEAN : RunTaskSetStatus(t, ok)
    \/ \E t \in TmIds : RunTaskSetResult(t)
    \/ \E t \in TmIds : RunTaskFinish(t)
    \/ \E t \in TmIds, ok \in BOOLEAN : FgWorkerFinish(t, ok)
    \/ \E t \in TmIds : OnTaskComplete(t)
    \/ \E t \in TmIds : FgStart(t)
    \/ \E t \in TmIds, ok \in BOOLEAN : FgResume(t, ok)
    \/ \E t \in TmIds : FgCancelled(t)
    \/ \E t \in TmIds : CancelTask(t)
    \/ \E t \in TmIds : CancelTaskCheck(t)
    \/ CancelTaskWrite
    \/ \E wait \in BOOLEAN : ShutdownBegin(wait)
    \/ ShutdownAwaitDone
    \/ ShutdownEnd
    \/ \E t \in TmIds, timeout \in BOOLEAN : WaitBegin(t, timeout)
    \/ \E expired \in BOOLEAN : WaitWake(expired)

SpecTM == InitTM /\ [][NextTM]_vars

\* the task life cycle with progress reports: submissions, the work on the
\* worker threads and on the loop, cancellations and update_progress
NextPG ==
    \/ \E bg \in BOOLEAN :
          \E coro \in FuncKinds(bg), user \in OwnerIds : SubmitTask(bg, coro, user)
    \/ WorkerStart
    \/ \E t \in TmIds, ok \in BOOLEAN : RunTaskSetStatus(t, ok)
    \/ \E t \in TmIds : RunTaskSetResult(t)
    \/ \E t \in TmIds : RunTaskFinish(t)
    \/ \E t \in TmIds, ok \in BOOLEAN : FgWorkerFinish(t, ok)
    \/ \E t \in TmIds : OnTaskComplete(t)
    \/ \E t \in TmIds : FgStart(t)
    \/ \E t \in TmIds, ok \in BOOLEAN : FgResume(t, ok)
    \/ \E t \in TmIds : FgCancelled(t)
    \/ \E t \in TmIds : CancelTask(t)
    \/ \E t \in TmIds : CancelTaskCheck(t)
    \/ CancelTaskWrite
    \/ \E t \in TmIds, v \in ProgressInputs : UpdateProgress(t, v)

SpecPG == InitTM /\ [][NextPG]_vars

\* what the scheduling guarantees: the event loop runs every callback that
\* is ready (first steps, cancellations, completion hand-offs, the poll
\* loop's wake-ups, and time passes so that a running timeout is found
\* expired), a free worker thread takes the next work item, and a thread
\* that is past task.func runs to the end of _run_task. Nothing makes a work
\* unit return.
FairTM ==
    /\ WF_vars(WorkerStart)
    /\ WF_vars(WaitWake(TRUE))
    /\ WF_vars(WaitWake(FALSE))
    /\ WF_vars(CancelTaskWrite)
    /\ \A t \in TmIds :
          /\ WF_vars(FgStart(t))
          /\ WF_vars(FgCancelled(t))
          /\ WF_vars(OnTaskComplete(t))
          /\ WF_vars(RunTaskSetResult(t))
          /\ WF_vars(RunTaskFinish(t))

SpecTMFair == InitTM /\ [][NextTM]_vars /\ FairTM

\* the assumptions of a terminating run on top of FairTM: every work unit
\* returns or raises (on its worker thread or in its coroutine), and a
\* shutdown that was begun runs on
WorkTerminates ==
    /\ WF_vars(ShutdownAwaitDone)
    /\ WF_vars(ShutdownEnd)
    /\ \A t \in TmIds :
          /\ WF_vars(\E ok \in BOOLEAN : RunTaskSetStatus(t, ok))
          /\ WF_vars(\E ok \in BOOLEAN : FgWorkerFinish(t, ok))
          /\ WF_vars(\E ok \in BOOLEAN : FgResume(t, ok))

SpecTMLive == InitTM /\ [][NextTM]_vars /\ FairTM /\ WorkTerminates

InitEH ==
    /\ now = 0
    /\ CBInitState(DefaultThreshold, DefaultTimeout)
    /\ SMInitState
    /\ TMInitState
    /\ PLInitState
    /\ \E attempts \in 0..MaxAttempts, base \in 1..MaxBaseDelay,
          maxd \in 1..MaxMaxDelay, expb \in 1..MaxExpBase :
          EHInitState(attempts, base, maxd, expb)

NextEH ==
    \/ RetryBegin
    \/ AttemptSucceed
    \/ \E retryable \in BOOLEAN : AttemptFail(retryable)
    \/ SleepDone

SpecEH == InitEH /\ [][NextEH]_vars

(***************************************************************************)
(* Claims about the TaskManager                                            *)
(***************************************************************************)
StatusRank(s) ==
    CASE s = "absent" -> 0
      [] s = "pending" -> 1
      [] s = "running" -> 2
      [] OTHER -> 3

\* C1: for every task in the registry, under every interleaving of
\* submit_task, _run_task on a worker thread, _run_async_task, cancel_task,
\* wait_for_task and shutdown, each change of the status moves forward in
\* [pending, running, terminal], and a terminal status (completed, failed,
\* cancelled) never changes again.
C1_StatusMonotone ==
    [][\A t \in TmIds :
          tasks'[t].status # tasks[t].status
              => StatusRank(tasks[t].status) < StatusRank(tasks'[t].status)]_vars

\* C11: cancel_task(task_id) returns false and changes nothing in the
\* registry when the task is unknown or already completed, failed or
\* cancelled; when the task is pending or running it returns true, and
\* get_task_status shows status cancelled from then on.
C11_CancelTaskContract ==
    [][\A t \in TmIds :
          /\ (cancel_ret'[t] = "false" /\ cancel_ret[t] # "false")
                 => (tasks' = tasks /\ async_tasks' = async_tasks)
          /\ (cancel_ret'[t] # cancel_ret[t])
                 => (cancel_ret'[t] = "true" <=> CanCancel(t))
          /\ cancel_ret'[t] = "true" => tasks'[t].status = "cancelled"]_vars

\* C12: wait_for_task(task_id, timeout) on a task whose work takes longer
\* than timeout (the task is still pending or running when the timeout is
\* found to have passed) raises TimeoutError, and the task's status is
\* cancelled when the error is raised and stays cancelled afterwards, for
\* foreground and background tasks.
C12_TimeoutLeavesCancelled ==
    (/\ waiter.pc = "returned"
     /\ waiter.out = "TimeoutError"
     /\ cancel_ret[waiter.task] = "true")
        => tasks[waiter.task].status = "cancelled"

\* C13: wait_for_task called with a positive timeout always terminates
\* (returns or raises), also when the task stays pending because every
\* worker of the pool is occupied and the task is never started.
C13_WaitTerminates ==
    (waiter.pc = "sleeping" /\ waiter.timeout) ~> (waiter.pc = "returned")

\* C14: when wait_for_task returns normally the value is the value the
\* task's work unit returned; when the task failed it raises an error
\* carrying the stored error message; when the task was cancelled it raises
\* a cancellation error (a timeout or an unknown id raise their own errors).
\* This holds for every interleaving of the worker thread's writes to the
\* task with the poll loop.
C14_WaitReturnsOutcome ==
    waiter.pc = "returned"
        => waiter.out \in {"value", "Exception_failed:err", "Exception_cancelled",
                           "TimeoutError", "ValueError"}

\* the value clamped to [0, 1]
ClampedToUnit(v) == IF v < 0 THEN 0 ELSE IF v > ProgressOne THEN ProgressOne ELSE v

\* C15: update_progress(task_id, value) sets the task's progress to value
\* clamped to [0,1] when the task is pending or running, and leaves the
\* registry unchanged when the task is unknown or in a terminal status.
C15_UpdateProgressFrame ==
    [][pg_event'.n # pg_event.n
          => LET t == pg_event'.task
                 v == pg_event'.value
             IN IF t <= task_counter /\ tasks[t].status \in {"pending", "running"}
                THEN tasks' = [tasks EXCEPT ![t].progress = ClampedToUnit(v)]
                ELSE tasks' = tasks]_vars

\* C16: when shutdown(wait) is called, every task that is pending or running
\* at that moment has its status set to cancelled.
C16_ShutdownCancelsAll ==
    [][(sd_pc = "idle" /\ sd_pc' # "idle")
          => \A t \in TmIds :
                tasks[t].status \in {"pending", "running"}
                    => tasks'[t].status = "cancelled"]_vars

\* a step taken by a thread of the worker pool
WorkerStep ==
    \E t \in TmIds :
        /\ worker_pc'[t] # worker_pc[t]
        /\ \/ worker_pc'[t] \in {"exec", "w_result", "w_error", "w_fin_ok",
                                 "w_fin_exc", "ret_ok", "ret_exc"}
           \/ worker_pc[t] \in {"w_fin_ok", "w_fin_exc"}

\* C17: single-writer rule: every mutation of a registered task's fields
\* (status, timestamps, result, error) is made on the event loop; a
\* worker-pool thread never writes a task, it only relays its completion
\* through the hand-off to the loop.
C17_SingleWriter ==
    [][WorkerStep => tasks' = tasks]_vars

\* C24: in every reachable state, for every interleaving of cancel_task and
\* shutdown with the worker thread's writes, a registered task holds a result
\* only if its status is completed and an error only if its status is failed.
C24_ResultOnlyIfCompleted ==
    \A t \in TmIds :
        /\ tasks[t].result # "none" => tasks[t].status = "completed"
        /\ tasks[t].error # "none" => tasks[t].status = "failed"

\* C30: if cancel_task(task_id) returned true, no completion notification
\* issued afterwards for that task carries success = true (the payload's
\* success is task.status == COMPLETED when the notification is built),
\* whether the task is foreground or a background task whose worker thread
\* keeps running after the cancellation.
C30_NoSuccessAfterCancel ==
    [][\A t \in TmIds :
          (cancel_ret[t] = "true" /\ notified'[t] > notified[t])
              => tasks'[t].status # "completed"]_vars

\* C23: every task registered by submit_task eventually reaches a terminal
\* status (completed, failed or cancelled), assuming its work unit terminates
\* and the worker pool and the event loop are scheduled fairly; this includes
\* foreground tasks cancelled before their first step, tasks pending when
\* shutdown is called, and tasks submitted after shutdown.
C23_EveryTaskTerminates ==
    \A t \in TmIds :
        (tasks[t].status = "pending") ~> (tasks[t].status \in Terminal)

\* no code of task t is still to run: a foreground task's asyncio task is
\* done, a background task's _on_task_complete has run
Settled(t) ==
    IF tasks[t].is_background
    THEN handoff[t] = "consumed"
    ELSE async_pc[t] \in {"done_ok", "done_exc", "cancelled"}

\* C10: with a notification callback registered and a non-empty owner id, the
\* callback is invoked exactly once for every task that reaches a terminal
\* status, foreground or background, also when the task was cancelled by
\* cancel_task or shutdown before or while its work runs: it is never invoked
\* twice, and once the task's code has all run it has been invoked once.
C10_NotifiedExactlyOnce ==
    \A t \in TmIds :
        (notification_callback /\ t <= task_counter /\ tasks[t].user_id # "")
            => /\ notified[t] <= 1
               /\ (tasks[t].status \in Terminal /\ Settled(t)) => notified[t] = 1

(***************************************************************************)
(* Claims about ErrorHandler.retry_with_backoff                            *)
(***************************************************************************)
\* C18: retry_with_backoff invokes the operation at most max_attempts times;
\* it goes on to another attempt only after an error the predicate accepted
\* on an attempt before the max_attempts-th; otherwise the error of the last
\* attempt is raised to the caller and exactly one ErrorRecord, with
\* success = false and retry_count = the number of attempts made, is appended
\* to the ledger.
C18_RetryExhausted ==
    /\ rb.calls <= max_attempts
    /\ rb.pc = "sleeping" => (~rb.rejected /\ rb.attempt < max_attempts)
    /\ rb.pc = "raised"
          => /\ rb.err = rb.calls
             /\ rb.rejected \/ rb.calls = max_attempts
             /\ error_history =
                   <<[error |-> rb.calls, retry_count |-> rb.calls, success |-> FALSE]>>

\* every attempt failed with a retryable error and the last one was raised
C18_Witness ==
    /\ rb.pc = "raised"
    /\ ~rb.rejected
    /\ rb.calls = max_attempts
    /\ max_attempts >= 2
    /\ Len(error_history) = 1

\* C19: if the operation fails on attempts 1..k-1 (2 <= k <= max_attempts,
\* every error retryable) and succeeds on attempt k, retry_with_backoff
\* returns the success value and appends exactly one ErrorRecord, with
\* success = true and retry_count = k, and no record with success = false.
C19_RecoveryRecorded ==
    (rb.pc = "returned" /\ rb.calls >= 2)
        => /\ rb.out = "value"
           /\ rb.calls <= max_attempts
           /\ error_history =
                 <<[error |-> rb.calls - 1, retry_count |-> rb.calls, success |-> TRUE]>>

\* success on the third attempt after two failures
C19_Witness ==
    /\ rb.pc = "returned"
    /\ rb.calls = 3
    /\ Len(error_history) = 1
    /\ error_history[1].success

\* min(max_delay, base_delay * exponential_base^(k-1)), doubled
SpecifiedDelay(k) ==
    LET d == BackoffMultiplierDen * base_delay * Pow(exponential_base, k - 1)
        cap == BackoffMultiplierDen * max_delay
    IN IF d < cap THEN d ELSE cap

\* C20: the delay slept before attempt k (k > 1) equals
\* min(max_delay, base_delay * exponential_base^(k-1)) for every k up to
\* max_attempts and every configuration; it never exceeds max_delay.
C20_BackoffDelay ==
    \A k \in 2..MaxAttempts :
        k - 1 <= Len(rb.slept) => rb.slept[k - 1] = SpecifiedDelay(k)

\* C22: connect_user and disconnect_user leave a session's pending_results
\* queue and pending_tasks list unchanged: connect only sets the handle and
\* the online flag (and the activity timestamp), disconnect only clears the
\* handle and the online flag.
C22_ConnectDisconnectFrame ==
    sm_event.kind \in {"connect", "disconnect"}
        => LET s == sess[sm_event.obj]
           IN /\ s.pending_results = sm_event.before
              /\ s.pending_tasks = sm_event.pending
              /\ s.is_online = (sm_event.kind = "connect")
              /\ (s.websocket = NoHandle) = (sm_event.kind = "disconnect")

\* a user with a queued result and a task in flight has just reconnected
C22_Witness ==
    /\ sm_event.kind = "connect"
    /\ sess[sm_event.obj].pending_results # <<>>
    /\ sess[sm_event.obj].pending_tasks # <<>>

\* C21: after retry_with_backoff has recorded a successful retry for an
\* error kind E, get_recovery_strategy for an error of kind E returns a
\* suggestion computed from the average attempt count of the successful
\* retries: "retry_with_backoff" when the average is <= 2, otherwise
\* "switch_provider" or "fallback_action".
C21_StrategyFromRecoveries ==
    (rb.pc = "returned" /\ rb.calls >= 2)
        => IF rb.calls <= RetryAvgLimit
           THEN GetRecoveryStrategy(error_patterns) = "retry_with_backoff"
           ELSE GetRecoveryStrategy(error_patterns)
                    \in {"switch_provider", "fallback_action"}

(***************************************************************************)
(* Claims about the UserSessionManager                                     *)
(***************************************************************************)
\* the pending_results queue registered for identity u under registry S
QueueOfUser(S, ss, u) == IF S[u] = 0 THEN <<>> ELSE ss[S[u]].pending_results

\* the queue of the session object the last step acted on
EventQueue == IF sm_event.obj = 0 THEN <<>> ELSE sess[sm_event.obj].pending_results

\* C4: a TaskResult leaves the pending_results queue of its identity only
\* when its delivered flag is true (no undelivered result is discarded), over
\* store_result, deliver_pending_results, connect_user, disconnect_user and
\* cleanup_inactive_sessions.
C4_NoUndeliveredDiscarded ==
    [][\A u \in Users :
         \A t \in Range(QueueOfUser(sessions, sess, u)) :
            t \notin Range(QueueOfUser(sessions', sess', u)) => delivered'[t]]_vars

\* C5: store_result for an identity that is offline (its session offline, or
\* the identity never seen before) leaves exactly one more undelivered entry
\* in the identity's pending queue; and a deliver_pending_results call that
\* runs undisturbed over a handle whose sends all succeed returns the number
\* of entries that were pending and leaves the queue empty.
C5_OfflineStoreThenDeliver ==
    /\ sm_event.kind \in {"store_offline", "store_dropped"}
         => LET t == sm_event.task
                u == st[t].user
            IN /\ sessions[u] # 0
               /\ QueueOfUser(sessions, sess, u) = Append(sm_event.before, t)
               /\ ~delivered[t]
    /\ (sm_event.kind = "deliver_return" /\ sm_event.tried /\ sm_event.clean
           /\ sm_event.failed_at = 0)
         => /\ sm_event.ret = Len(sm_event.pending)
            /\ EventQueue = <<>>

\* C6: store_result on an existing session. A send that succeeds marks the
\* result delivered and leaves the queue as it was; an offline session or a
\* send that raises appends the result with delivered = false, and the call
\* returns normally.
C6_StoreResultOutcome ==
    LET t == sm_event.task
    IN /\ sm_event.kind = "store_sent"
            => /\ delivered[t]
               /\ EventQueue = sm_event.before
               /\ t \notin Range(EventQueue)
               /\ st[t].pc = "done"
       /\ sm_event.kind \in {"store_offline", "store_queued"}
            => /\ EventQueue = Append(sm_event.before, t)
               /\ ~delivered[t]
               /\ st[t].pc = "done"
       /\ sm_event.kind = "store_offline"
            => ~(sess[sm_event.obj].is_online
                   /\ sess[sm_event.obj].websocket # NoHandle)

C6_Witness ==
    /\ sm_event.kind = "store_queued"
    /\ Len(EventQueue) = 2

\* the entries of `pending` from index k on
TailFrom(pending, k) == SubSeq(pending, k, Len(pending))

\* C7 (as amended): a deliver call sends the undelivered entries of its
\* snapshot in enqueue order; a failed send ends the call; the entries before
\* the failure are gone from the queue; the failed entry and those after it
\* are still queued, undelivered and in their relative order, except those an
\* overlapping deliver call for the same identity has sent successfully.
C7_DeliverStopsAtFailure ==
    /\ \A d \in DeliverIds :
          dl[d].pc = "sending"
            => \A i \in 1..(dl[d].idx - 1) : delivered[dl[d].pending[i]]
    /\ (sm_event.kind = "deliver_return" /\ sm_event.failed_at > 0)
         => LET p == sm_event.pending
                k == sm_event.failed_at
                q == EventQueue
                inTail(t) == t \in Range(TailFrom(p, k))
                undelivered(t) == ~delivered[t]
            IN /\ dl[sm_event.call].pc = "idle"
               /\ \A i \in 1..(k - 1) : p[i] \notin Range(q)
               /\ \A i \in k..Len(p) :
                     \/ ~delivered[p[i]] /\ p[i] \in Range(q)
                     \/ delivered[p[i]] /\ p[i] \in sent /\ ~sm_event.clean
               /\ SelectSeq(q, inTail) = SelectSeq(TailFrom(p, k), undelivered)

C7_Witness ==
    /\ sm_event.kind = "deliver_return"
    /\ sm_event.failed_at = 2
    /\ sm_event.ret = 1
    /\ Len(EventQueue) = 1

\* C7 (as claimed): as above, but the failed entry and all entries after it
\* stay queued and undelivered without exception.
C7_Original ==
    (sm_event.kind = "deliver_return" /\ sm_event.failed_at > 0)
      => LET p == sm_event.pending
             k == sm_event.failed_at
             q == EventQueue
             inTail(t) == t \in Range(TailFrom(p, k))
         IN /\ dl[sm_event.call].pc = "idle"
            /\ \A i \in 1..(k - 1) : p[i] \notin Range(q)
            /\ \A i \in k..Len(p) : ~delivered[p[i]]
            /\ SelectSeq(q, inTail) = TailFrom(p, k)

C9_NoResultLost ==
    \A t \in 1..n_results :
        \/ t \in sent
        \/ st[t].pc = "sending"
        \/ t \in Range(QueueOfUser(sessions, sess, st[t].user))
        \/ \E d \in DeliverIds :
              /\ dl[d].pc = "sending"
              /\ t \in Range(TailFrom(dl[d].pending, dl[d].idx))


\* C29: a result that store_result appended to pending_results while a
\* deliver_pending_results call for the same identity was suspended inside a
\* send is not lost: when that call returns, the new result is either still
\* in the queue with delivered = false or has been sent successfully.
C29_StoredDuringDeliverKept ==
    (sm_event.kind = "deliver_return" /\ sm_event.tried)
        => \A t \in Range(sm_event.before) \ Range(sm_event.pending) :
              \/ t \in Range(sess[sm_event.obj].pending_results) /\ ~delivered[t]
              \/ t \in sent

\* a deliver call returns with a result in the queue, unsent, that was not in
\* its snapshot
C29_Witness ==
    /\ sm_event.kind = "deliver_return"
    /\ sm_event.tried
    /\ sm_event.pending # <<>>
    /\ \E t \in Range(sm_event.before) \ Range(sm_event.pending) :
          /\ t \in Range(sess[sm_event.obj].pending_results)
          /\ ~delivered[t]
          /\ t \notin sent

(***************************************************************************)
(* Claims about the CircuitBreaker                                         *)
(***************************************************************************)

\* C2: after failure_threshold consecutive failed calls, a call made before
\* recovery_timeout has elapsed since the last failure is rejected: it raises
\* CircuitBreakerOpenError and the wrapped operation is not started.
C2_OpenRejectsNextCall ==
    [][\A c \in CallIds :
          ( /\ CallBegin(c)
            /\ consec_failures >= failure_threshold
            /\ last_failure_time # NoTime
            /\ now - last_failure_time < recovery_timeout )
          => ( /\ cb_event' = [kind |-> "rejected", call |-> c]
               /\ cb_pc'[c] = "idle" )]_vars

C2_Witness ==
    /\ cb_event.kind = "rejected"
    /\ consec_failures >= failure_threshold
    /\ failure_threshold = MaxThreshold
    /\ now - last_failure_time < recovery_timeout

\* C26: in the planner's foreground path, once the skill's breaker is open
\* and its recovery timeout has not elapsed, a further foreground execution
\* of the skill does not invoke skill.execute at all: the breaker's error is
\* surfaced at once and no retry attempt is made against the skill.
C26_OpenBreakerSkipsSkill ==
    pl.rejected => (rb.calls = 0 /\ pl.pc = "idle")

C28_OpenImpliesThreshold ==
    state = "open" => failure_count >= failure_threshold

\* the transitions into open and into half-open that C25 describes
C25_IntoOpenAndHalfOpen ==
    /\ (state' = "open" /\ state # "open")
          => ( /\ state \in {"closed", "half-open"}
               /\ failure_count' >= failure_threshold
               /\ \E c \in CallIds : CallFail(c) )
    /\ (state' = "half-open" /\ state # "half-open")
          => ( /\ state = "open"
               /\ last_failure_time # NoTime
               /\ now - last_failure_time >= recovery_timeout )

\* C25 (as stated): over call and reset, every step that changes the state to
\* open comes from closed or half-open with failure count >= threshold, every
\* step that changes it to half-open comes from open with recovery_timeout
\* elapsed since the last failure, and every step that changes it to closed
\* is the return of a successful call made while half-open or closed.
C25_Original ==
    [][ /\ C25_IntoOpenAndHalfOpen
        /\ (state' = "closed" /\ state # "closed")
              => \E c \in CallIds : CallSucceed(c) ]_vars

\* C25 (amended): the same for open and half-open; a step that changes the
\* state to closed is either reset(), from any state, or the return of a
\* successful call while the state is half-open.
C25_Transitions ==
    [][ /\ C25_IntoOpenAndHalfOpen
        /\ (state' = "closed" /\ state # "closed")
              => \/ Reset
                 \/ state = "half-open" /\ \E c \in CallIds : CallSucceed(c) ]_vars

\* a breaker that had opened at the highest threshold, closed by reset()
\* before any call succeeded
C25_Witness ==
    /\ cb_event.kind = "reset"
    /\ state = "closed"
    /\ last_failure_time # NoTime
    /\ failure_threshold = MaxThreshold
    /\ \E c \in CallIds : cb_pc[c] = "running"

\* C3: the call that moved the breaker from open to half-open (the probe)
\* closes the breaker when it succeeds, and when it fails returns it to open
\* with the last-failure timestamp set to the time of that failure; and an
\* open breaker whose recovery_timeout has elapsed lets the next call through
\* in state half-open.
C3_HalfOpenProbe ==
    [][\A c \in CallIds :
          /\ (CallBegin(c) /\ state = "open" /\ ShouldAttemptReset)
                => (state' = "half-open" /\ cb_pc'[c] = "running")
          /\ (CallSucceed(c) /\ cb_probe = c) => state' = "closed"
          /\ (CallFail(c) /\ cb_probe = c)
                => (state' = "open" /\ last_failure_time' = now)]_vars

====
